---- MODULE Spec2Model ----
(***************************************************************************)
(* A model of convert_schema.py: the JSON Schema converter with its three  *)
(* targets (Draft4Converter, Mongo36Converter, Mongo32Converter), the      *)
(* definition merger and the option loop of main() that collects the       *)
(* definition files.                                                       *)
(*                                                                         *)
(* JSON values are records [t, own, s, items]:                             *)
(*   t     "str" | "bool" | "null" | "arr" | "obj"                         *)
(*   own   for arrays and objects, whose object it is: "in" for a node of  *)
(*         the parsed input (schema, definition files, built-in table),    *)
(*         "new" for a node the converter allocated; "-" for scalars       *)
(*   s     the text of a scalar                                            *)
(*   items the elements of an array, or the [k, v] pairs of an object in   *)
(*         insertion order (a Python dict keeps insertion order)           *)
(***************************************************************************)
EXTENDS Integers, Sequences, FiniteSets, TLC

VARIABLES
    target,             \* the -t option: "draft4", "mongo32" or "mongo36"
    files,              \* the parsed -d definition files, in option order
    nadded,             \* how many of them main() has merged so far
    raw_definitions,    \* main()'s `definitions` (starts as the built-ins)
    schema0,            \* the parsed input schema as the caller handed it in
    schema,             \* the caller's schema object as it is now
    self_schema,        \* SchemaConverter.schema
    self_definitions,   \* SchemaConverter.definitions ([k, v] pairs)
    type_dependencies,  \* Draft4Converter.type_dependencies
    used_types,         \* Draft4Converter.used_types
    self_result,        \* SchemaConverter._result
    error,              \* the exception that ended the conversion, if any
    pc                  \* position in main() / generate_result()

vars == <<target, files, nadded, raw_definitions, schema0, schema, self_schema,
          self_definitions, type_dependencies, used_types, self_result, error, pc>>

(***************************************************************************)
(* JSON values                                                             *)
(***************************************************************************)
Str(s) == [t |-> "str", own |-> "-", s |-> s, items |-> <<>>]
Bool(b) == [t |-> "bool", own |-> "-", s |-> IF b THEN "true" ELSE "false", items |-> <<>>]
Obj(own, kvs) == [t |-> "obj", own |-> own, s |-> "", items |-> kvs]
Arr(own, xs) == [t |-> "arr", own |-> own, s |-> "", items |-> xs]
KV(k, v) == [k |-> k, v |-> v]
None == [t |-> "null", own |-> "-", s |-> "", items |-> <<>>]

\* dict operations on the [k, v] pairs of an object
HasKey(kvs, k) == \E i \in 1..Len(kvs) : kvs[i].k = k
IndexOf(kvs, k) == CHOOSE i \in 1..Len(kvs) : kvs[i].k = k
Get(kvs, k) == kvs[IndexOf(kvs, k)].v
Put(kvs, k, v) ==
    IF HasKey(kvs, k) THEN [kvs EXCEPT ![IndexOf(kvs, k)] = KV(k, v)]
    ELSE Append(kvs, KV(k, v))
Del(kvs, k) == SelectSeq(kvs, LAMBDA e : e.k # k)
KeySet(kvs) == {kvs[i].k : i \in 1..Len(kvs)}

RECURSIVE Update(_, _)
Update(kvs, other) ==
    IF other = <<>> THEN kvs
    ELSE Update(Put(kvs, Head(other).k, Head(other).v), Tail(other))

(***************************************************************************)
(* The type catalog                                                        *)
(***************************************************************************)
JSON_SCHEMA_TYPES ==
    {"string", "number", "boolean", "null", "object", "array", "integer"}

MONGO_BSON_TYPES ==
    {"string", "number", "bool", "null", "object", "array", "int", "long",
     "double", "date", "timestamp", "objectId", "binData"}

StrProp(pattern) ==
    Obj("in", <<KV("type", Str("string")), KV("pattern", Str(pattern))>>)

BuiltinBinData ==
    Obj("in", <<KV("type", Str("object")),
                KV("required", Arr("in", <<Str("$binary"), Str("$type")>>)),
                KV("properties", Obj("in",
                    <<KV("$binary", StrProp("^[=0-9A-Za-z+/]*$")),
                      KV("$type", StrProp("^[0-9A-Za-z]{1,2}$"))>>)),
                KV("additionalProperties", Bool(FALSE))>>)

BuiltinDate ==
    Obj("in", <<KV("type", Str("object")),
                KV("required", Arr("in", <<Str("$date")>>)),
                KV("properties", Obj("in",
                    <<KV("$date", StrProp("^[0-9]{4}-[0-9]{2}-[0-9]{2}T[0-9]{2}:[0-9]{2}:[0-9]{2}(\\.[0-9]{3})?Z$"))>>)),
                KV("additionalProperties", Bool(FALSE))>>)

BuiltinObjectId ==
    Obj("in", <<KV("type", Str("object")),
                KV("required", Arr("in", <<Str("$oid")>>)),
                KV("properties", Obj("in",
                    <<KV("$oid", StrProp("^[0-9A-Fa-f]{24}$"))>>)),
                KV("additionalProperties", Bool(FALSE))>>)

BUILTIN_DEFINITIONS ==
    Obj("in", <<KV("alt_definitions", Obj("in",
        <<KV("json", Obj("in", <<KV("binData", BuiltinBinData),
                                 KV("date", BuiltinDate),
                                 KV("objectId", BuiltinObjectId)>>))>>))>>)

(***************************************************************************)
(* The definition merger                                                   *)
(***************************************************************************)
\* _merge_definitions(definitions, raw_definitions, type_)
MergeDefinitions(defs, raw, type_) ==
    LET d1 == IF HasKey(raw.items, "definitions")
              THEN Update(defs, Get(raw.items, "definitions").items)
              ELSE defs
    IN  IF /\ HasKey(raw.items, "alt_definitions")
           /\ HasKey(Get(raw.items, "alt_definitions").items, type_)
        THEN Update(d1, Get(Get(raw.items, "alt_definitions").items, type_).items)
        ELSE d1

\* dict.setdefault(k, {}) on the pairs of an object
SetDefault(kvs, k) == IF HasKey(kvs, k) THEN kvs ELSE Append(kvs, KV(k, Obj("new", <<>>)))

RECURSIVE AddAltBuckets(_, _)
AddAltBuckets(alt, buckets) ==
    IF buckets = <<>> THEN alt
    ELSE LET type_ == Head(buckets).k
             a1 == SetDefault(alt, type_)
             b == Get(a1, type_)
         IN  AddAltBuckets(
                 Put(a1, type_, [b EXCEPT !.items = Update(b.items, Head(buckets).v.items)]),
                 Tail(buckets))

\* _add_definitions_file(raw_definitions, filename), the file already parsed
AddDefinitionsFileTo(raw, new_definitions) ==
    LET r1 == IF HasKey(new_definitions.items, "definitions")
              THEN LET kvs == SetDefault(raw.items, "definitions")
                       d == Get(kvs, "definitions")
                   IN  Put(kvs, "definitions",
                           [d EXCEPT !.items =
                               Update(d.items, Get(new_definitions.items, "definitions").items)])
              ELSE raw.items
        r2 == IF HasKey(new_definitions.items, "alt_definitions")
              THEN LET kvs == SetDefault(r1, "alt_definitions")
                       a == Get(kvs, "alt_definitions")
                   IN  Put(kvs, "alt_definitions",
                           [a EXCEPT !.items =
                               AddAltBuckets(a.items,
                                   Get(new_definitions.items, "alt_definitions").items)])
              ELSE r1
    IN  [raw EXCEPT !.items = r2]

\* the `type_` each converter class passes to SchemaConverter.__init__
ConverterType(tg) == IF tg = "draft4" THEN "json" ELSE "mongodb"

(***************************************************************************)
(* The generic tree walker.  Each operator returns [val, st]: the value    *)
(* built and the walk state st = [deps, used, err, name], where deps and   *)
(* used are Draft4Converter's type_dependencies and used_types, err is the *)
(* class of the exception raised ("" when none) and name is the type_name  *)
(* of an UnknownTypeError.  src_path only feeds the error messages and is  *)
(* left out.                                                               *)
(***************************************************************************)
WalkState(deps, used) == [deps |-> deps, used |-> used, err |-> "", name |-> ""]
Return(val, st) == [val |-> val, st |-> st]
Raise(st, kind, name) == [val |-> None, st |-> [st EXCEPT !.err = kind, !.name = name]]

\* Python's recursion limit, which ends an unbounded recursion with RecursionError
RecursionLimit == 6

RECURSIVE RecordTypeUsage(_, _, _, _)
RECURSIVE RecordUsageOfAll(_, _, _, _)

\* the loop `for dependee_type in self.type_dependencies[type_]`
RecordUsageOfAll(todo, deps, used, depth) ==
    IF todo = {} THEN [used |-> used, err |-> ""]
    ELSE LET dependee_type == CHOOSE x \in todo : TRUE
             r == RecordTypeUsage(dependee_type, deps, used, depth)
         IN  IF r.err # "" THEN r
             ELSE RecordUsageOfAll(todo \ {dependee_type}, deps, r.used, depth)

\* Draft4Converter.record_type_usage, `depth` frames deep
RecordTypeUsage(type_, deps, used, depth) ==
    IF depth > RecursionLimit THEN [used |-> used, err |-> "RecursionError"]
    ELSE IF type_ \in used THEN [used |-> used, err |-> ""]
    ELSE LET r == IF type_ \in DOMAIN deps
                  THEN RecordUsageOfAll(deps[type_], deps, used, depth + 1)
                  ELSE [used |-> used, err |-> ""]
         IN  IF r.err # "" THEN r
             ELSE [used |-> r.used \cup {type_}, err |-> ""]

\* Draft4Converter.record_dependency
RecordDependency(type_, obj_path, st) ==
    IF obj_path # <<>> /\ obj_path[1] = "$definitions"
    THEN IF Len(obj_path) < 2 THEN [st EXCEPT !.err = "IndexError"]
         ELSE LET depender == obj_path[2]
                  old == IF depender \in DOMAIN st.deps THEN st.deps[depender] ELSE {}
                  new == IF depender # type_ THEN old \cup {type_} ELSE old
              IN  [st EXCEPT !.deps =
                      [x \in DOMAIN st.deps \cup {depender} |->
                          IF x = depender THEN new ELSE st.deps[x]]]
    ELSE LET r == RecordTypeUsage(type_, st.deps, st.used, 1)
         IN  [st EXCEPT !.used = r.used, !.err = r.err]

\* Draft4Converter.convert_type
Draft4ConvertType(type_, obj_path, defs, st) ==
    IF type_.t # "str" THEN Raise(st, "RuntimeError", "")
    ELSE IF type_.s \in {"double", "int", "long", "decimal"}
    THEN Return(Obj("new", <<KV("type", Str("number"))>>), st)
    ELSE IF type_.s \in JSON_SCHEMA_TYPES
    THEN Return(Obj("new", <<KV("type", type_)>>), st)
    ELSE IF HasKey(defs, type_.s)
    THEN LET st2 == RecordDependency(type_.s, obj_path, st)
         IN  IF st2.err # "" THEN [val |-> None, st |-> st2]
             ELSE Return(Obj("new", <<KV("$ref", Str("#/definitions/" \o type_.s))>>), st2)
    ELSE Raise(st, "UnknownTypeError", type_.s)

\* Mongo36Converter.convert_type (Mongo32Converter inherits it)
Mongo36ConvertType(type_, obj_path, defs, st) ==
    IF type_.t # "str" THEN Raise(st, "RuntimeError", "")
    ELSE IF type_.s = "integer"
    THEN Return(Obj("new", <<KV("bsonType", Str("int"))>>), st)
    ELSE IF type_.s = "boolean"
    THEN Return(Obj("new", <<KV("bsonType", Str("bool"))>>), st)
    ELSE IF type_.s \in MONGO_BSON_TYPES
    THEN Return(Obj("new", <<KV("bsonType", type_)>>), st)
    ELSE IF type_.s \in JSON_SCHEMA_TYPES THEN Raise(st, "AssertionError", "")
    ELSE IF HasKey(defs, type_.s) THEN Return(Get(defs, type_.s), st)
    ELSE Raise(st, "UnknownTypeError", type_.s)

\* the convert_type the converter class of target tg dispatches to
ConvertType(tg, type_, obj_path, defs, st) ==
    IF tg = "draft4" THEN Draft4ConvertType(type_, obj_path, defs, st)
    ELSE Mongo36ConvertType(type_, obj_path, defs, st)

RECURSIVE ConvertObject(_, _, _, _, _)
RECURSIVE ConvertObjectItems(_, _, _, _, _, _)
RECURSIVE ConvertArray(_, _, _, _, _)
RECURSIVE ConvertArrayItems(_, _, _, _, _, _)
RECURSIVE ConvertInnerType(_, _, _, _, _)
RECURSIVE ConvertInnerItems(_, _, _, _, _, _)

\* the loop `for k, v in object_.items()` of convert_object, `result` so far
ConvertObjectItems(tg, kvs, result, obj_path, defs, st) ==
    IF kvs = <<>> THEN Return(Obj("new", result), st)
    ELSE LET k == Head(kvs).k
             v == Head(kvs).v
         IN  IF k = "type"
             THEN LET r == ConvertType(tg, v, obj_path, defs, st)
                  IN  IF r.st.err # "" THEN r
                      ELSE ConvertObjectItems(tg, Tail(kvs), Update(result, r.val.items),
                                              obj_path, defs, r.st)
             ELSE LET r == IF k \in {"definitions", "properties"}
                           THEN ConvertInnerType(tg, v, obj_path, defs, st)
                           ELSE IF k \in {"allOf", "anyOf", "oneOf", "not"}
                           THEN ConvertArray(tg, v, obj_path, defs, st)
                           ELSE IF k = "items"
                           THEN ConvertObject(tg, v, obj_path, defs, st)
                           ELSE Return(v, st)
                  IN  IF r.st.err # "" THEN r
                      ELSE ConvertObjectItems(tg, Tail(kvs), Put(result, k, r.val),
                                              obj_path, defs, r.st)

\* SchemaConverter.convert_object
ConvertObject(tg, object_, obj_path, defs, st) ==
    IF object_.t # "obj" THEN Raise(st, "RuntimeError", "")
    ELSE ConvertObjectItems(tg, object_.items, <<>>, obj_path, defs, st)

\* the loop `for i, v in enumerate(array)` of convert_array
ConvertArrayItems(tg, xs, result, obj_path, defs, st) ==
    IF xs = <<>> THEN Return(Arr("new", result), st)
    ELSE LET r == ConvertObject(tg, Head(xs), obj_path, defs, st)
         IN  IF r.st.err # "" THEN r
             ELSE ConvertArrayItems(tg, Tail(xs), Append(result, r.val), obj_path, defs, r.st)

\* SchemaConverter.convert_array
ConvertArray(tg, array, obj_path, defs, st) ==
    IF array.t # "arr" THEN Raise(st, "RuntimeError", "")
    ELSE ConvertArrayItems(tg, array.items, <<>>, obj_path, defs, st)

\* the loop `for k, v in object_.items()` of convert_inner_type
ConvertInnerItems(tg, kvs, result, obj_path, defs, st) ==
    IF kvs = <<>> THEN Return(Obj("new", result), st)
    ELSE LET r == ConvertObject(tg, Head(kvs).v, Append(obj_path, Head(kvs).k), defs, st)
         IN  IF r.st.err # "" THEN r
             ELSE ConvertInnerItems(tg, Tail(kvs), Put(result, Head(kvs).k, r.val),
                                    obj_path, defs, r.st)

\* SchemaConverter.convert_inner_type
ConvertInnerType(tg, object_, obj_path, defs, st) ==
    IF object_.t # "obj" THEN Raise(st, "RuntimeError", "")
    ELSE ConvertInnerItems(tg, object_.items, <<>>, obj_path, defs, st)

(***************************************************************************)
(* Draft4: pruning.  Mongo36: the definitions pre-pass.  Mongo32: the      *)
(* flattening pass.                                                        *)
(***************************************************************************)
\* remove_unused_definitions that removes nothing
RemoveNoDefinitions(defs, used) == defs

\* Draft4Converter.remove_unused_definitions
RemoveUnusedDefinitions(defs, used) == SelectSeq(defs, LAMBDA e : e.k \in used)

\* the except clause of Mongo36Converter.process_definitions for definition k
\* with body v, after UnknownTypeError(type_name = name) was caught
Mongo36Fallback(k, v, name, defs, st) ==
    IF name # k THEN Raise(st, "UnknownTypeError", name)
    ELSE IF v.t # "obj" /\ (\E i \in 1..Len(v.items) : v.items[i] = Str("type"))
    THEN Raise(st, "RuntimeError", "")
    ELSE IF ~HasKey(v.items, "type") THEN Raise(st, "KeyError", "")
    ELSE Mongo36ConvertType(Get(v.items, "type"), <<"$definitions">>, defs, st)

RECURSIVE Mongo36ProcessLoop(_, _, _)
\* the loop `for k, v in definitions.items()` of Mongo36Converter.process_definitions;
\* defs is self.definitions as filled so far
Mongo36ProcessLoop(old, defs, st) ==
    IF old = <<>> THEN Return(Obj("new", defs), st)
    ELSE LET k == Head(old).k
             v == Head(old).v
             r == ConvertObject("mongo36", v, <<"$definitions">>, defs, st)
             r2 == IF r.st.err = "UnknownTypeError"
                   THEN Mongo36Fallback(k, v, r.st.name, defs, st)
                   ELSE r
         IN  IF r2.st.err # "" THEN r2
             ELSE Mongo36ProcessLoop(Tail(old), Put(defs, k, r2.val), r2.st)

RECURSIVE Join(_)
\* '.'.join(path)
Join(path) ==
    IF path = <<>> THEN ""
    ELSE IF Len(path) = 1 THEN path[1]
    ELSE path[1] \o "." \o Join(Tail(path))

\* result.get('required', [])
RequiredProperties(result) ==
    IF HasKey(result.items, "required") THEN Get(result.items, "required").items ELSE <<>>

\* `k in required_properties`
IsRequired(k, required_properties) ==
    \E i \in 1..Len(required_properties) : required_properties[i] = Str(k)

RECURSIVE MarkRequired(_, _, _)
\* the loop `for item in required_properties` of _flatten_recursively
MarkRequired(required_properties, flattened_result, obj_path) ==
    IF required_properties = <<>> THEN flattened_result
    ELSE LET stringized_path == Join(Append(obj_path, Head(required_properties).s))
             f1 == SetDefault(flattened_result, stringized_path)
             e == Get(f1, stringized_path)
         IN  MarkRequired(Tail(required_properties),
                 Put(f1, stringized_path,
                     [e EXCEPT !.items = Put(e.items, "$exists", Bool(TRUE))]),
                 obj_path)

\* the same body without the final `del ...['$exists']`
PopulateEntryKeepsExists(result, entry) ==
    LET has(key) == HasKey(result.items, key)
        e1 == IF has("bsonType")
              THEN Put(entry.items, "$type", Get(result.items, "bsonType")) ELSE entry.items
        e2 == IF has("pattern") THEN Put(e1, "$regex", Get(result.items, "pattern")) ELSE e1
        e3 == IF has("enum") THEN Put(e2, "$in", Get(result.items, "enum")) ELSE e2
    IN  [entry EXCEPT !.items = e3]

\* the body of `if stringized_path and stringized_path in flattened_result`
PopulateEntry(result, entry) ==
    LET has(key) == HasKey(result.items, key)
        e1 == IF has("bsonType")
              THEN Put(entry.items, "$type", Get(result.items, "bsonType")) ELSE entry.items
        e2 == IF has("pattern") THEN Put(e1, "$regex", Get(result.items, "pattern")) ELSE e1
        e3 == IF has("enum") THEN Put(e2, "$in", Get(result.items, "enum")) ELSE e2
        need_exists == ~(has("bsonType") \/ has("pattern") \/ has("enum"))
    IN  [entry EXCEPT !.items =
            IF HasKey(e3, "$exists") /\ ~need_exists THEN Del(e3, "$exists") ELSE e3]

RECURSIVE FlattenRecursively(_, _, _)
RECURSIVE FlattenProperties(_, _, _, _)
RECURSIVE FlattenPropertiesAll(_, _, _, _)

\* the same loop without the test `if k in required_properties`
FlattenPropertiesAll(props, required_properties, flattened_result, obj_path) ==
    IF props = <<>> THEN flattened_result
    ELSE FlattenPropertiesAll(Tail(props), required_properties,
             FlattenRecursively(Head(props).v, flattened_result,
                                Append(obj_path, Head(props).k)),
             obj_path)

\* the loop `for k, v in result['properties'].items()` of _flatten_recursively
FlattenProperties(props, required_properties, flattened_result, obj_path) ==
    IF props = <<>> THEN flattened_result
    ELSE LET f1 == IF IsRequired(Head(props).k, required_properties)
                   THEN FlattenRecursively(Head(props).v, flattened_result,
                                           Append(obj_path, Head(props).k))
                   ELSE flattened_result
         IN  FlattenProperties(Tail(props), required_properties, f1, obj_path)

\* Mongo32Converter._flatten_recursively; returns flattened_result as it leaves it
FlattenRecursively(result, flattened_result, obj_path) ==
    LET required_properties == RequiredProperties(result)
        f1 == MarkRequired(required_properties, flattened_result, obj_path)
        stringized_path == Join(obj_path)
        f2 == IF stringized_path # "" /\ HasKey(f1, stringized_path)
              THEN Put(f1, stringized_path, PopulateEntry(result, Get(f1, stringized_path)))
              ELSE f1
    IN  IF HasKey(result.items, "properties")
        THEN FlattenProperties(Get(result.items, "properties").items,
                               required_properties, f2, obj_path)
        ELSE f2

\* keeping the caller's dict instead of copying it
SchemaKept(s) == s

\* schema.copy(): a new dict holding the same values
SchemaCopy(s) == [s EXCEPT !.own = "new"]

\* `del self.schema[...]` of generate_result
DeleteDefinitionKeys(s) == [s EXCEPT !.items = Del(Del(s.items, "definitions"), "alt_definitions")]

(***************************************************************************)
(* The program                                                             *)
(***************************************************************************)
NoError == [kind |-> "", name |-> ""]
ErrorOf(st) == [kind |-> st.err, name |-> st.name]
Targets == {"draft4", "mongo32", "mongo36"}

\* main(): one `-d` option
AddDefinitionsFile ==
    /\ pc = "options"
    /\ nadded < Len(files)
    /\ raw_definitions' = AddDefinitionsFileTo(raw_definitions, files[nadded + 1])
    /\ nadded' = nadded + 1
    /\ UNCHANGED <<target, files, schema0, schema, self_schema, self_definitions,
                   type_dependencies, used_types, self_result, error, pc>>

\* convert_schema(): class_table[target_type](schema, definitions), that is
\* SchemaConverter.__init__ and the subclass constructor around it
Construct ==
    /\ pc = "options"
    /\ nadded = Len(files)
    /\ target \in Targets
    /\ self_schema' = SchemaCopy(schema)
    /\ self_definitions' =
          IF raw_definitions.items # <<>>
          THEN MergeDefinitions(<<>>, raw_definitions, ConverterType(target))
          ELSE <<>>
    /\ self_result' =
          IF target = "draft4"
          THEN Obj("new", <<KV("$schema", Str("http://json-schema.org/draft-04/schema#"))>>)
          ELSE Obj("new", <<>>)
    /\ type_dependencies' = <<>>
    /\ used_types' = {}
    /\ pc' = "generate_result"
    /\ UNCHANGED <<target, files, nadded, raw_definitions, schema0, schema, error>>

\* generate_result() up to the call of process_definitions
MergeSchemaDefinitions ==
    /\ pc = "generate_result"
    /\ self_definitions' =
          MergeDefinitions(self_definitions, self_schema, ConverterType(target))
    /\ self_schema' = DeleteDefinitionKeys(self_schema)
    /\ schema' = IF self_schema.own = "in" THEN DeleteDefinitionKeys(schema) ELSE schema
    /\ pc' = "process_definitions"
    /\ UNCHANGED <<target, files, nadded, raw_definitions, schema0,
                   type_dependencies, used_types, self_result, error>>

\* Draft4Converter.process_definitions
Draft4ProcessDefinitions ==
    /\ pc = "process_definitions"
    /\ target = "draft4"
    /\ LET r == ConvertInnerType("draft4", Obj("new", self_definitions), <<"$definitions">>,
                                 self_definitions, WalkState(type_dependencies, used_types))
       IN  IF r.st.err # ""
           THEN /\ error' = ErrorOf(r.st)
                /\ pc' = "failed"
                /\ UNCHANGED <<self_definitions, type_dependencies, used_types>>
           ELSE /\ self_definitions' = r.val.items
                /\ type_dependencies' = r.st.deps
                /\ used_types' = r.st.used
                /\ pc' = "prepare_result"
                /\ UNCHANGED error
    /\ UNCHANGED <<target, files, nadded, raw_definitions, schema0, schema, self_schema,
                   self_result>>

\* Mongo36Converter.process_definitions (Mongo32Converter inherits it)
Mongo36ProcessDefinitions ==
    /\ pc = "process_definitions"
    /\ target \in {"mongo36", "mongo32"}
    /\ LET r == Mongo36ProcessLoop(self_definitions, <<>>,
                                   WalkState(type_dependencies, used_types))
       IN  IF r.st.err # ""
           THEN /\ error' = ErrorOf(r.st)
                /\ pc' = "failed"
                /\ UNCHANGED self_definitions
           ELSE /\ self_definitions' = r.val.items
                /\ pc' = "prepare_result"
                /\ UNCHANGED error
    /\ UNCHANGED <<target, files, nadded, raw_definitions, schema0, schema, self_schema,
                   type_dependencies, used_types, self_result>>

\* Draft4Converter.prepare_result
Draft4PrepareResult ==
    /\ pc = "prepare_result"
    /\ target = "draft4"
    /\ LET r == ConvertObject("draft4", self_schema, <<>>, self_definitions,
                              WalkState(type_dependencies, used_types))
           kept == RemoveUnusedDefinitions(self_definitions, r.st.used)
           r1 == IF kept # <<>>
                 THEN Put(self_result.items, "definitions", Obj("new", kept))
                 ELSE self_result.items
       IN  IF r.st.err # ""
           THEN /\ error' = ErrorOf(r.st)
                /\ pc' = "failed"
                /\ UNCHANGED <<self_definitions, type_dependencies, used_types, self_result>>
           ELSE /\ self_definitions' = kept
                /\ type_dependencies' = r.st.deps
                /\ used_types' = r.st.used
                /\ self_result' = [self_result EXCEPT !.items = Update(r1, r.val.items)]
                /\ pc' = "done"
                /\ UNCHANGED error
    /\ UNCHANGED <<target, files, nadded, raw_definitions, schema0, schema, self_schema>>

\* Mongo36Converter.prepare_result
Mongo36PrepareResult ==
    /\ pc = "prepare_result"
    /\ target = "mongo36"
    /\ LET r == ConvertObject("mongo36", self_schema, <<>>, self_definitions,
                              WalkState(type_dependencies, used_types))
       IN  IF r.st.err # ""
           THEN /\ error' = ErrorOf(r.st)
                /\ pc' = "failed"
                /\ UNCHANGED self_result
           ELSE /\ self_result' =
                      [self_result EXCEPT !.items = Put(self_result.items, "$jsonSchema", r.val)]
                /\ pc' = "done"
                /\ UNCHANGED error
    /\ UNCHANGED <<target, files, nadded, raw_definitions, schema0, schema, self_schema,
                   self_definitions, type_dependencies, used_types>>

\* Mongo32Converter.prepare_result and flatten_result
Mongo32PrepareResult ==
    /\ pc = "prepare_result"
    /\ target = "mongo32"
    /\ LET r == ConvertObject("mongo32", self_schema, <<>>, self_definitions,
                              WalkState(type_dependencies, used_types))
       IN  IF r.st.err # ""
           THEN /\ error' = ErrorOf(r.st)
                /\ pc' = "failed"
                /\ UNCHANGED self_result
           ELSE /\ self_result' =
                      [self_result EXCEPT !.items =
                          FlattenRecursively(r.val, self_result.items, <<>>)]
                /\ pc' = "done"
                /\ UNCHANGED error
    /\ UNCHANGED <<target, files, nadded, raw_definitions, schema0, schema, self_schema,
                   self_definitions, type_dependencies, used_types>>

Next ==
    \/ AddDefinitionsFile
    \/ Construct
    \/ MergeSchemaDefinitions
    \/ Draft4ProcessDefinitions
    \/ Mongo36ProcessDefinitions
    \/ Draft4PrepareResult
    \/ Mongo36PrepareResult
    \/ Mongo32PrepareResult

(***************************************************************************)
(* The inputs: three families of parsed schemas and definition files.      *)
(***************************************************************************)
In(kvs) == Obj("in", kvs)
TypeOnly(tok) == In(<<KV("type", Str(tok))>>)
Props(kvs) == KV("properties", In(kvs))
Required(names) == KV("required", Arr("in", [i \in 1..Len(names) |-> Str(names[i])]))

\* Family 1: definitions A, B, C that refer to one another, and root bodies
\* that use them
RefTokens == {"string", "A", "B", "C"}

GraphDefinitions ==
    { In(<<KV("A", TypeOnly(ta)),
           KV("B", In(<<Props(<<KV("p", TypeOnly(tb))>>)>>)),
           KV("C", In(<<KV("type", Str("object")), Props(<<KV("p", TypeOnly(tc))>>)>>))>>)
      : ta \in RefTokens, tb \in RefTokens, tc \in RefTokens }

GraphBodies ==
    { <<KV("type", Str(tok))>> :
          tok \in {"string", "A", "B", "C", "date", "bogus", "decimal", "double",
                   "int", "long", "integer"} }
    \cup { <<Props(<<KV("x", TypeOnly(tok))>>)>> : tok \in {"A", "C"} }
    \cup { <<Props(<<KV("$definitions", In(<<Props(<<KV("A", TypeOnly(tok))>>)>>))>>)>> :
          tok \in {"B", "C"} }
    \cup { <<Props(<<KV("$definitions", TypeOnly("A"))>>)>>,
           <<Props(<<KV("$definitions", In(<<Props(<<KV("A", TypeOnly("B"))>>)>>)),
                     KV("x", TypeOnly("A"))>>)>>,
           <<KV("items", TypeOnly("B"))>>,
           <<KV("items", Str("x"))>>,
           <<KV("allOf", Arr("in", <<TypeOnly("A"), TypeOnly("C")>>))>>,
           <<KV("anyOf", In(<<>>))>>,
           <<KV("type", Arr("in", <<Str("string")>>))>> }

GraphSchemas ==
    { In(body) : body \in GraphBodies }
    \cup { In(<<KV("definitions", d)>> \o body) : d \in GraphDefinitions, body \in GraphBodies }

\* Family 2: the same name supplied by the built-ins, by definition files and
\* by the schema, plainly or in an alt_definitions bucket
Marked(mark) == In(<<KV("type", Str("string")), KV("description", Str(mark))>>)

DefinitionFiles ==
    { In(<<KV("definitions", In(<<KV("date", Marked("file plain date"))>>))>>),
      In(<<KV("alt_definitions",
              In(<<KV("json", In(<<KV("date", Marked("file json date"))>>))>>))>>),
      In(<<KV("alt_definitions",
              In(<<KV("mongodb", In(<<KV("foo", Marked("file mongodb foo"))>>))>>))>>),
      In(<<KV("definitions", In(<<KV("foo", Marked("file plain foo"))>>)),
           KV("alt_definitions",
              In(<<KV("json", In(<<KV("foo", Marked("file json foo"))>>))>>))>>) }

MaxFiles == 2

FileLists == UNION { [1..n -> DefinitionFiles] : n \in 0..MaxFiles }

MergeSchemas ==
    { In(<<KV("type", Str("date"))>>),
      In(<<KV("definitions", In(<<KV("foo", Marked("schema plain foo"))>>)),
           KV("type", Str("foo"))>>),
      In(<<KV("definitions", In(<<KV("date", Marked("schema plain date"))>>)),
           KV("alt_definitions",
              In(<<KV("json", In(<<KV("date", Marked("schema json date"))>>))>>)),
           KV("type", Str("date"))>>),
      In(<<KV("alt_definitions",
              In(<<KV("mongodb", In(<<KV("foo", Marked("schema mongodb foo"))>>))>>)),
           Props(<<KV("x", TypeOnly("foo"))>>)>>) }

\* Family 3: nested `required` and `properties`
Leaves ==
    { TypeOnly("integer"),
      In(<<KV("type", Str("string")), KV("pattern", Str("^x"))>>),
      In(<<KV("enum", Arr("in", <<Str("u"), Str("v")>>))>>),
      In(<<KV("description", Str("d"))>>),
      TypeOnly("T") }

Inner ==
    Leaves \cup
    { In(<<KV("type", Str("object")), Required(r), Props(<<KV("b", l)>>)>>) :
          r \in {<<>>, <<"b">>, <<"b", "c">>},
          l \in {TypeOnly("integer"), In(<<KV("description", Str("d"))>>), TypeOnly("T")} }

NestedDefinitions ==
    In(<<KV("T", In(<<KV("type", Str("object")), Required(<<"b">>),
                      Props(<<KV("b", TypeOnly("long"))>>)>>))>>)

NestedSchemas ==
    { In(<<KV("type", Str("object")), Required(<<"a">>),
           Props(<<KV("a", TypeOnly("integer"))>>)>>) }
    \cup
    { In(<<KV("definitions", NestedDefinitions), KV("type", Str("object")), Required(r),
           Props((IF first = "a" THEN <<KV("a", m), KV("a.b", l)>>
                  ELSE <<KV("a.b", l), KV("a", m)>>)
                 \o <<KV("c", In(<<Required(<<"x">>),
                                   Props(<<KV("x", TypeOnly("boolean"))>>)>>))>>)>>) :
          r \in {<<>>, <<"a">>, <<"a.b">>, <<"a", "a.b">>, <<"a", "c">>},
          m \in Inner,
          l \in {TypeOnly("integer"), In(<<KV("description", Str("d"))>>)},
          first \in {"a", "a.b"} }

Start(tg, fs, sch) ==
    /\ target = tg
    /\ files = fs
    /\ nadded = 0
    /\ raw_definitions = BUILTIN_DEFINITIONS
    /\ schema0 = sch
    /\ schema = sch
    /\ self_schema = None
    /\ self_definitions = <<>>
    /\ type_dependencies = <<>>
    /\ used_types = {}
    /\ self_result = None
    /\ error = NoError
    /\ pc = "options"

Init ==
    \E tg \in Targets :
        \/ \E sch \in GraphSchemas : Start(tg, <<>>, sch)
        \/ \E fs \in FileLists, sch \in MergeSchemas : Start(tg, fs, sch)
        \/ \E sch \in NestedSchemas : Start(tg, <<>>, sch)

Spec == Init /\ [][Next]_vars

(***************************************************************************)
(* Vocabulary of the properties                                            *)
(***************************************************************************)
Range(seq) == {seq[i] : i \in 1..Len(seq)}

\* the DefinitionSet the conversion works on: built-ins and files, then the schema
DefinitionSet ==
    MergeDefinitions(MergeDefinitions(<<>>, raw_definitions, ConverterType(target)),
                     schema0, ConverterType(target))

\* the schema body: the input schema without its definition keys
RootBody == DeleteDefinitionKeys(schema0)

RECURSIVE TypeTokens(_)
\* the `type` tokens at the schema positions of a node
TypeTokens(node) ==
    IF node.t # "obj" THEN {}
    ELSE UNION { IF e.k = "type" THEN (IF e.v.t = "str" THEN {e.v.s} ELSE {})
                 ELSE IF e.k \in {"definitions", "properties"} /\ e.v.t = "obj"
                 THEN UNION { TypeTokens(c.v) : c \in Range(e.v.items) }
                 ELSE IF e.k \in {"allOf", "anyOf", "oneOf", "not"} /\ e.v.t = "arr"
                 THEN UNION { TypeTokens(x) : x \in Range(e.v.items) }
                 ELSE IF e.k = "items" THEN TypeTokens(e.v)
                 ELSE {} : e \in Range(node.items) }

\* the definitions a node refers to: its tokens that are no primitive type of
\* Draft4 and name a definition of the pool
References(node, pool) ==
    (TypeTokens(node) \cap KeySet(pool))
        \ (JSON_SCHEMA_TYPES \cup {"double", "int", "long", "decimal"})

RECURSIVE Closure(_, _, _)
\* what is reached from the set S in at most n definition-to-definition steps
Closure(S, pool, n) ==
    IF n = 0 THEN S
    ELSE Closure(S \cup UNION { References(Get(pool, d), pool) : d \in S }, pool, n - 1)

\* the definitions transitively reachable from the root schema body
ReachableDefinitions ==
    Closure(References(RootBody, DefinitionSet), DefinitionSet, Len(DefinitionSet))

\* the definitions that lie on a cycle of references
OnCycle(d) ==
    d \in Closure(References(Get(DefinitionSet, d), DefinitionSet), DefinitionSet,
                  Len(DefinitionSet))

OutputDefinitionNames ==
    IF HasKey(self_result.items, "definitions")
    THEN KeySet(Get(self_result.items, "definitions").items)
    ELSE {}

\* C1: after a successful Draft4 conversion the names in the output
\* `definitions` are exactly the definitions transitively reachable from a
\* `type` token of the root schema body.
C1_OutputIsReachableSet ==
    (target = "draft4" /\ pc = "done") => OutputDefinitionNames = ReachableDefinitions

RECURSIVE PropertyNamesIn(_)
\* every name a node gives a property, at any depth
PropertyNamesIn(node) ==
    IF node.t = "obj"
    THEN UNION { (IF e.k \in {"definitions", "properties"} /\ e.v.t = "obj"
                  THEN KeySet(e.v.items) ELSE {})
                 \cup PropertyNamesIn(e.v) : e \in Range(node.items) }
    ELSE IF node.t = "arr" THEN UNION { PropertyNamesIn(x) : x \in Range(node.items) }
    ELSE {}

\* C2: the usage-marking closure terminates on every dependency graph: a
\* Draft4 conversion (of a body whose references all reach record_type_usage,
\* none of its properties being named $definitions) never ends in unbounded
\* recursion, also when definitions refer to one another in a cycle, and when
\* it completes, every definition reachable from a used one (so every
\* definition of its cycle) is used.
C2_UsageMarkingTerminates ==
    (/\ target = "draft4"
     /\ pc \in {"done", "failed"}
     /\ "$definitions" \notin PropertyNamesIn(RootBody)) =>
        /\ error.kind # "RecursionError"
        /\ pc = "done" =>
               \A d \in used_types :
                   Closure({d}, DefinitionSet, Len(DefinitionSet)) \subseteq used_types

(***************************************************************************)
(* Mongo32: the flattened result                                           *)
(***************************************************************************)
\* the nested Mongo36 form of the schema body that Mongo32 flattens
NestedResult ==
    ConvertObject("mongo32", self_schema, <<>>, self_definitions,
                  WalkState(type_dependencies, used_types)).val

RequiredNames(node) ==
    IF HasKey(node.items, "required")
    THEN {x.s : x \in Range(Get(node.items, "required").items)}
    ELSE {}

PropertyNames(node) ==
    IF HasKey(node.items, "properties")
    THEN KeySet(Get(node.items, "properties").items)
    ELSE {}

RECURSIVE RequiredPaths(_)
\* the paths n1..nk, k >= 1, with each ni in `required` of the node reached by
\* n1..n(i-1) and, for i < k, also a key of that node's `properties`
RequiredPaths(node) ==
    { <<n>> : n \in RequiredNames(node) }
    \cup UNION { { <<n>> \o q : q \in RequiredPaths(Get(Get(node.items, "properties").items, n)) }
                 : n \in RequiredNames(node) \cap PropertyNames(node) }

RECURSIVE NodeAt(_, _)
\* the node a path of property names leads to
NodeAt(node, path) ==
    IF path = <<>> THEN node
    ELSE NodeAt(Get(Get(node.items, "properties").items, Head(path)), Tail(path))

\* the required paths that lead to a declared property
DeclaredPaths(node) ==
    { p \in RequiredPaths(node) :
          p[Len(p)] \in PropertyNames(NodeAt(node, SubSeq(p, 1, Len(p) - 1))) }

\* no other required path flattens to the same dotted key
KeyOfOnePath(node, p) == \A q \in RequiredPaths(node) : Join(q) = Join(p) => q = p

Mongo32Done == target = "mongo32" /\ pc = "done"

RoundTripSchema ==
    In(<<KV("type", Str("object")), Required(<<"a">>),
         Props(<<KV("a", TypeOnly("integer"))>>)>>)

\* C3 as the specification states it: the round-trip schema yields
\* {"a": {"$exists": true, "$type": "int"}}, and a required property that
\* declares a type has both $exists and $type in its entry.
C3_ExistsAndType ==
    Mongo32Done =>
        /\ schema0 = RoundTripSchema =>
               /\ KeySet(self_result.items) = {"a"}
               /\ KeySet(Get(self_result.items, "a").items) = {"$exists", "$type"}
               /\ Get(Get(self_result.items, "a").items, "$exists") = Bool(TRUE)
               /\ Get(Get(self_result.items, "a").items, "$type") = Str("int")
        /\ \A p \in DeclaredPaths(NestedResult) :
               (HasKey(NodeAt(NestedResult, p).items, "bsonType") /\ KeyOfOnePath(NestedResult, p))
                   => {"$exists", "$type"} \subseteq KeySet(Get(self_result.items, Join(p)).items)

\* C3 amended: the round-trip schema yields {"a": {"$type": "int"}}, and a
\* required, declared property whose type resolves to a bsonType has $type,
\* set to that bsonType, and no $exists in its entry, when no other required
\* path flattens to the same dotted key.
C3_TypeReplacesExists ==
    Mongo32Done =>
        /\ schema0 = RoundTripSchema =>
               self_result.items = <<KV("a", Obj("new", <<KV("$type", Str("int"))>>))>>
        /\ \A p \in DeclaredPaths(NestedResult) :
               (HasKey(NodeAt(NestedResult, p).items, "bsonType") /\ KeyOfOnePath(NestedResult, p))
                   => LET entry == Get(self_result.items, Join(p)).items
                      IN  /\ HasKey(entry, "$type")
                          /\ Get(entry, "$type") = Get(NodeAt(NestedResult, p).items, "bsonType")
                          /\ ~HasKey(entry, "$exists")

\* C3 witness: the round-trip schema has been flattened
C3_Witness ==
    /\ Mongo32Done
    /\ schema0 = RoundTripSchema
    /\ HasKey(self_result.items, "a")

\* C10: the keys of the Mongo32 output are exactly the dotted forms of the
\* required paths n1..nk, k >= 1, of the nested result: the root path has no
\* entry, and what lies under a property that its parent does not require
\* contributes nothing.
C10_KeysAreRequiredPaths ==
    Mongo32Done =>
        KeySet(self_result.items) = { Join(p) : p \in RequiredPaths(NestedResult) }

\* C10 witness: a flattened result with a nested key, from a schema that
\* also holds `required` under a property its parent does not require
C10_Witness ==
    /\ Mongo32Done
    /\ \E p \in RequiredPaths(NestedResult) : Len(p) = 2 /\ HasKey(self_result.items, Join(p))
    /\ \E n \in PropertyNames(NestedResult) \ RequiredNames(NestedResult) :
           RequiredNames(Get(Get(NestedResult.items, "properties").items, n)) # {}

(***************************************************************************)
(* Type resolution, the merge and the definitions pre-pass                 *)
(***************************************************************************)
NumericAliases == {"double", "int", "long", "decimal"}
MongoTargets == {"mongo36", "mongo32"}

\* resolveType for a token at the root of the schema body, in the converter's
\* present state
Resolve(tok) ==
    ConvertType(target, Str(tok), <<>>, self_definitions,
                WalkState(type_dependencies, used_types))

\* C4: with no definition of that name, each of double, int, long, decimal
\* resolves to {type: "number"} under Draft4 and to {bsonType: <token>} under
\* the Mongo targets, integer resolves to {bsonType: "int"} under the Mongo
\* targets, and none of them raises an error under any target.
C4_NumericAliasesResolve ==
    pc = "prepare_result" =>
        \A tok \in NumericAliases \cup {"integer"} :
            ~HasKey(self_definitions, tok) =>
                /\ Resolve(tok).st.err = ""
                /\ (target = "draft4" /\ tok \in NumericAliases)
                       => Resolve(tok).val.items = <<KV("type", Str("number"))>>
                /\ (target \in MongoTargets /\ tok \in NumericAliases)
                       => Resolve(tok).val.items = <<KV("bsonType", Str(tok))>>
                /\ (target \in MongoTargets /\ tok = "integer")
                       => Resolve(tok).val.items = <<KV("bsonType", Str("int"))>>

\* the bodies a source (the built-in table, a definitions file, the schema)
\* supplies for a name, in its `definitions` or in its alt_definitions bucket
\* of the active target
Supplied(source, name) ==
    LET plain == IF HasKey(source.items, "definitions")
                 THEN Get(source.items, "definitions").items ELSE <<>>
        alts == IF HasKey(source.items, "alt_definitions")
                THEN Get(source.items, "alt_definitions").items ELSE <<>>
        alt == IF HasKey(alts, ConverterType(target))
               THEN Get(alts, ConverterType(target)).items ELSE <<>>
    IN  { Get(d, name) : d \in { x \in {plain, alt} : HasKey(x, name) } }

SuppliedByFiles(name) == UNION { Supplied(files[i], name) : i \in 1..Len(files) }

\* C5: a name supplied by several sources has, in the working DefinitionSet,
\* the body of the highest-precedence source: built-in library < definition
\* files < the schema's own definitions, whether the source carries the name
\* in `definitions` or in the alt_definitions bucket of the active target.
C5_PrecedenceOfSources ==
    pc = "process_definitions" =>
        \A name \in KeySet(self_definitions) :
            LET body == Get(self_definitions, name)
            IN  IF Supplied(schema0, name) # {} THEN body \in Supplied(schema0, name)
                ELSE IF SuppliedByFiles(name) # {} THEN body \in SuppliedByFiles(name)
                ELSE body \in Supplied(BUILTIN_DEFINITIONS, name)

RECURSIVE HasRef(_)
\* whether a `$ref` key occurs in a value
HasRef(node) ==
    IF node.t = "obj"
    THEN \E e \in Range(node.items) : e.k = "$ref" \/ HasRef(e.v)
    ELSE IF node.t = "arr" THEN \E x \in Range(node.items) : HasRef(x)
    ELSE FALSE

NoSelfReference ==
    \A d \in KeySet(DefinitionSet) : d \notin TypeTokens(Get(DefinitionSet, d))

\* C6: under Mongo36 and Mongo32 a `type` token that names a definition of
\* the merged DefinitionSet resolves, in the root body and inside another
\* definition, whatever the order of the definitions: the conversion never
\* fails with UnknownTypeError for such a token, and never emits a `$ref`.
C6_DefinitionsAlwaysInlined ==
    (target \in MongoTargets /\ pc \in {"done", "failed"} /\ NoSelfReference) =>
        /\ ~(error.kind = "UnknownTypeError" /\ error.name \in KeySet(DefinitionSet))
        /\ pc = "done" => ~HasRef(self_result)

\* C7 as the specification states it: a schema without a `definitions` key
\* gives a Draft4 output without a `definitions` key.
C7_NoDefinitionsKey ==
    (target = "draft4" /\ pc = "done" /\ ~HasKey(schema0.items, "definitions")) =>
        ~HasKey(self_result.items, "definitions")

\* C7 amended: a schema without a `definitions` key whose body uses no type
\* token that names a definition of the pool (built-in, from a file or from
\* the schema's alt_definitions) gives a Draft4 output without a `definitions`
\* key.
C7_NoDefinitionsKeyUnlessUsed ==
    (/\ target = "draft4"
     /\ pc = "done"
     /\ ~HasKey(schema0.items, "definitions")
     /\ References(RootBody, DefinitionSet) = {}) =>
        ~HasKey(self_result.items, "definitions")

\* C7 witness: such a conversion has completed with a pool that is not empty
C7_Witness ==
    /\ target = "draft4"
    /\ pc = "done"
    /\ ~HasKey(schema0.items, "definitions")
    /\ References(RootBody, DefinitionSet) = {}
    /\ TypeTokens(RootBody) # {}
    /\ DefinitionSet # <<>>
    /\ ~HasKey(self_result.items, "definitions")

\* the walker's own keys; every other key is passed through
WalkedKeys ==
    {"definitions", "properties", "allOf", "anyOf", "oneOf", "not", "items", "type"}

RECURSIVE TopShared(_, _)
\* the keys under which a value, found under `key`, holds a node of the input
\* (the topmost such nodes only)
TopShared(node, key) ==
    IF node.t \notin {"obj", "arr"} THEN {}
    ELSE IF node.own = "in" THEN {key}
    ELSE IF node.t = "obj" THEN UNION { TopShared(e.v, e.k) : e \in Range(node.items) }
    ELSE UNION { TopShared(x, key) : x \in Range(node.items) }

\* C8 as the specification states it: the output shares no object or array
\* with the input, pass-through values included, and the input is unchanged.
C8_NothingShared ==
    pc = "done" => (TopShared(self_result, "") = {} /\ schema = schema0)

\* C8 amended: the nodes the walker builds (the result, and what it puts
\* under definitions, properties, items, allOf, anyOf, oneOf, not and in place
\* of type) are new and the input schema is unchanged; the only nodes of the
\* input in the output are values of pass-through keys, such as `required`
\* and `enum` (`$in` after flattening).
C8_OnlyPassThroughShared ==
    pc = "done" =>
        /\ self_result.own = "new"
        /\ TopShared(self_result, "") \cap WalkedKeys = {}
        /\ schema = schema0

\* C8 witness: an output that holds the input's `required` array
C8_Witness ==
    /\ pc = "done"
    /\ HasKey(schema0.items, "definitions")
    /\ "required" \in TopShared(self_result, "")

\* the definition k as the pre-pass met it: its body, and self.definitions as
\* filled before it
BodyOf(k) == Get(DefinitionSet, k)
FilledBefore(k) == SubSeq(self_definitions, 1, IndexOf(DefinitionSet, k) - 1)
RaisesOwnName(k) ==
    LET r == ConvertObject("mongo36", BodyOf(k), <<"$definitions">>, FilledBefore(k),
                           WalkState(<<>>, {}))
    IN  r.st.err = "UnknownTypeError" /\ r.st.name = k

\* C9: in the Mongo pre-pass an UnknownTypeError naming the definition k in
\* hand is caught and k's stored body becomes the resolution of k's top-level
\* `type` token; the pre-pass otherwise aborts with UnknownTypeError or with
\* the structural error (RuntimeError), also when k has no top-level `type`.
C9_FallbackToTypeAlias ==
    target \in MongoTargets =>
        /\ pc = "failed" => error.kind \in {"UnknownTypeError", "RuntimeError"}
        /\ pc = "prepare_result" =>
               \A k \in KeySet(DefinitionSet) :
                   RaisesOwnName(k) =>
                       /\ HasKey(BodyOf(k).items, "type")
                       /\ Get(self_definitions, k) =
                              Mongo36ConvertType(Get(BodyOf(k).items, "type"), <<"$definitions">>,
                                                 FilledBefore(k), WalkState(<<>>, {})).val

(***************************************************************************)
(* Draft4: the references of the output                                    *)
(***************************************************************************)
RECURSIVE RefsIn(_)
\* the values of the `$ref` keys that occur in a value
RefsIn(node) ==
    IF node.t = "obj"
    THEN UNION { (IF e.k = "$ref" /\ e.v.t = "str" THEN {e.v.s} ELSE {}) \cup RefsIn(e.v)
                 : e \in Range(node.items) }
    ELSE IF node.t = "arr" THEN UNION { RefsIn(x) : x \in Range(node.items) }
    ELSE {}

\* C11: after a successful Draft4 conversion every `$ref` "#/definitions/X"
\* of the output, in the root body or inside a surviving definition, names a
\* definition X that the output `definitions` holds, whatever the property
\* names of the schema body (one named $definitions included).
C11_NoDanglingRef ==
    (target = "draft4" /\ pc = "done") =>
        \A r \in RefsIn(self_result) :
            \E X \in OutputDefinitionNames : r = "#/definitions/" \o X

====
